---- MODULE Spec2Model ----
(***************************************************************************)
(* Checkout coordination of spree-ember: the Checkouts mixin of the Spree  *)
(* service (current order, persisted identifiers, state machine, cart      *)
(* operations) and the order serializer, against a Spree server.           *)
(*                                                                         *)
(* Every asynchronous request is an entry of `pending`; its completion     *)
(* callback is one step (Ember runs a promise callback to its end before   *)
(* any other callback).                                                    *)
(***************************************************************************)
EXTENDS Integers, Sequences, FiniteSets, TLC

\* ------------------------------------------------------------------ bounds
\* Calls a user makes on the service in one session.
MaxOps == 2
\* Largest quantity of one addToCart call.
MaxQty == 2

Variants == {"v1", "v2"}
Quantities == 1..MaxQty

\* -------------------------------------------------------------- vocabulary
\* null of a record reference / of a persisted order id
Null == 0
\* null of the guest token
NoToken == <<>>
Token(id) == <<"token", id>>

\* The checkout steps a server reports for an order: with and without the
\* closing "complete" entry.
StepsChoices ==
  { <<"address", "delivery", "payment", "confirm">>,
    <<"address", "delivery", "payment", "confirm", "complete">> }

\* Names that have a transition event transitionTo<Name> on the machine.
EventNames == {"address", "delivery", "payment", "confirm", "complete"}

OrderStates == {"cart"} \cup EventNames

NoItems == [v \in Variants |-> 0]

VARIABLES
  checkoutFlow,  \* the checkout steps the server reports for its orders
  server,        \* the server's orders, by id (a sequence: id = index)
  localStorage,  \* the durable {orderId, guestToken}
  store,         \* the Ember Data store: the loaded order records, a function of their ids
  orderId,       \* service property, persisted
  guestToken,    \* service property, persisted
  currentOrder,  \* service property: id of the current order record, or Null
  current,       \* the state machine's current state on the service ("none": no machine yet)
  pending,       \* requests in flight
  events,        \* how often each signal was triggered
  requests,      \* how many Remote Gateway requests were issued, by kind
  deferCalls,    \* application.deferReadiness() calls
  advanceCalls,  \* application.advanceReadiness() calls
  phase,         \* "init" before initCheckouts, then "booted", then "ready"
  ops,           \* calls made so far (names the calls and the requests)
  last,          \* the latest call's return or promise settlement
  tally,         \* per variant, the quantity the current order was given by resolved addToCart calls
  clean          \* no call overlapped another on the current order and no line-item save failed

vars == <<checkoutFlow, server, localStorage, store, orderId, guestToken, currentOrder, current,
          pending, events, requests, deferCalls, advanceCalls, phase, ops, last,
          tally, clean>>

\* ----------------------------------------------------------------- helpers
\* JavaScript's Array.prototype.indexOf: zero-based, -1 when absent.
IndexOf(arr, x) ==
  IF \E i \in 1..Len(arr) : arr[i] = x
    THEN (CHOOSE i \in 1..Len(arr) : arr[i] = x /\ \A j \in 1..(i-1) : arr[j] # x) - 1
    ELSE -1

\* JavaScript's arr[i]: "undefined" outside the array.
At(arr, i) == IF i >= 0 /\ i < Len(arr) THEN arr[i + 1] ELSE "undefined"

\* Ember's findBy on a line-item collection: position of the first line item
\* of the variant, 0 when there is none.
findBy(lineItems, variant) ==
  IF \E i \in 1..Len(lineItems) : lineItems[i].variant = variant
    THEN CHOOSE i \in 1..Len(lineItems) :
           /\ lineItems[i].variant = variant
           /\ \A j \in 1..(i-1) : lineItems[j].variant # variant
    ELSE 0

\* The line items of a server order as the records of an order payload.
RECURSIVE ItemsAsList(_, _)
ItemsAsList(items, vs) ==
  IF vs = {} THEN <<>>
  ELSE LET v == CHOOSE x \in vs : \A y \in vs : x = y \/ IndexOf(<<"v1", "v2">>, x) <= IndexOf(<<"v1", "v2">>, y)
       IN  (IF items[v] > 0 THEN <<[variant |-> v, quantity |-> items[v]]>> ELSE <<>>)
           \o ItemsAsList(items, vs \ {v})

\* The order record the store holds after an order payload of the server is pushed.
Loaded(id, so) ==
  [ id            |-> id,
    state         |-> so.state,
    email         |-> "guest",
    lineItems     |-> ItemsAsList(so.items, Variants),
    billAddress   |-> IF so.bill THEN "address1" ELSE "",
    shipAddress   |-> IF so.ship THEN "address1" ELSE "",
    shipments     |-> [defined |-> TRUE, items |-> <<>>],
    payments      |-> <<>>,
    checkoutSteps |-> so.steps,
    guestToken    |-> so.token ]

\* Storable's persist: sets the properties and writes them to local storage.
persist(oid, tok) ==
  /\ orderId' = oid
  /\ guestToken' = tok
  /\ localStorage' = [orderId |-> oid, guestToken |-> tok]

trigger(name) == events' = [events EXCEPT ![name] = @ + 1]

request(kind) == requests' = [requests EXCEPT ![kind] = @ + 1]

\* A request in flight.
Op(id, kind, order, variant, addQty, quantity, isNew, data, event) ==
  [ id |-> id, kind |-> kind, order |-> order, variant |-> variant, addQty |-> addQty,
    quantity |-> quantity, isNew |-> isNew, data |-> data, event |-> event ]

NoData == [order |-> [email |-> ""], state |-> ""]

\* What a call returned or a promise settled with: `n` numbers the call, `arg`
\* is its state-name argument, `response` the server's answer ("ok", "invalid"
\* with validation errors, "network" for a failed request), `event` the
\* transition event that was invoked; a line item comes with its variant, its
\* quantity and the quantity its call asked for, an order with its state.
Result(n, op, response, outcome, value) ==
  [ n |-> n, op |-> op, arg |-> "", response |-> response, outcome |-> outcome,
    value |-> value, state |-> "", variant |-> "", quantity |-> 0, addQty |-> 0,
    event |-> "" ]

\* ---------------------------------------------------------------- the server
ServerOrder(state, items, addr, steps, id) ==
  [ state |-> state, items |-> items, bill |-> addr, ship |-> addr,
    steps |-> steps, token |-> Token(id) ]

Gone == [ state |-> "gone", items |-> NoItems, bill |-> FALSE, ship |-> FALSE,
          steps |-> <<>>, token |-> NoToken ]

Exists(id) == id \in 1..Len(server) /\ server[id].state # "gone"

\* ----------------------------------------------------------------- Init
\* An order a returning session can find on the server: in any state, with the
\* line item and addresses that state needs.
RestorableOrders(states, steps) ==
  { ServerOrder(s, [NoItems EXCEPT !["v1"] = 1], s \notin {"cart", "address"}, steps, 1) :
      s \in states }
  \cup { ServerOrder("cart", NoItems, FALSE, steps, 1) }

\* The session starts with nothing persisted, or with the id and token of an
\* order in one of `states`, which the server still has or has not.
InitWith(states) ==
  /\ checkoutFlow \in StepsChoices
  /\ \/ /\ server = <<>>
        /\ localStorage = [orderId |-> Null, guestToken |-> NoToken]
     \/ /\ \E so \in RestorableOrders(states, checkoutFlow) : server = <<so>>
        /\ localStorage = [orderId |-> 1, guestToken |-> Token(1)]
     \/ /\ server = <<Gone>>
        /\ localStorage = [orderId |-> 1, guestToken |-> Token(1)]
  /\ store = <<>>
  /\ orderId = Null
  /\ guestToken = NoToken
  /\ currentOrder = Null
  /\ current = "none"
  /\ pending = {}
  /\ events = [serverError |-> 0, didAddToCart |-> 0, didCreateNewOrder |-> 0]
  /\ requests = [fetch |-> 0, create |-> 0, lineItem |-> 0, save |-> 0, advance |-> 0]
  /\ deferCalls = 0
  /\ advanceCalls = 0
  /\ phase = "init"
  /\ ops = 0
  /\ last = Result(0, "none", "none", "none", "none")
  /\ tally = NoItems
  /\ clean = TRUE

Init == InitWith(OrderStates)

\* The sessions of the cart operations: a restored order is still a cart.
InitCart == InitWith({"cart"})

\* ------------------------------------------------------------ initCheckouts
\* _setupStateMachineForOrder: the machine starts in the order's state.
MachineInitial(order) == order.state

initCheckouts ==
  /\ phase = "init"
  /\ phase' = "booted"
  /\ orderId' = localStorage.orderId
  /\ guestToken' = localStorage.guestToken
  /\ IF localStorage.orderId # Null
       THEN /\ deferCalls' = deferCalls + 1
            /\ pending' = pending \cup
                 {Op(0, "fetch", localStorage.orderId, "", 0, 0, FALSE, NoData, "")}
            /\ request("fetch")
       ELSE UNCHANGED <<deferCalls, pending, requests>>
  /\ last' = Result(0, "initCheckouts", "none", "returned", "true")
  /\ UNCHANGED <<checkoutFlow, server, localStorage, store, currentOrder, current, events,
                 advanceCalls, ops, tally, clean>>

\* A callback of the fetch does not advance the readiness.
ReadinessAfterFetch_NotAdvanced(calls) == calls

\* The error callback of the fetch leaves the persisted identifiers alone.
PersistedAfterFailedFetch_Kept == [guestToken |-> guestToken, orderId |-> orderId]

\* Lines 116 and 119: both callbacks of the fetch advance the readiness that
\* initCheckouts deferred.
ReadinessAfterFetch(calls) == calls + 1

\* Lines 120-123: what the error callback of the fetch persists.
PersistedAfterFailedFetch == [guestToken |-> NoToken, orderId |-> Null]

\* store.find('order', orderId) resolved: lines 113-117.
FetchResolved(p) ==
  /\ p \in pending /\ p.kind = "fetch"
  /\ Exists(p.order)
  /\ pending' = pending \ {p}
  /\ store' = (p.order :> Loaded(p.order, server[p.order])) @@ store
  /\ currentOrder' = p.order
  /\ current' = MachineInitial(Loaded(p.order, server[p.order]))
  /\ advanceCalls' = ReadinessAfterFetch(advanceCalls)
  /\ last' = [Result(0, "initCheckouts", "ok", "resolved", "undefined")
                EXCEPT !.state = server[p.order].state]
  /\ tally' = server[p.order].items
  /\ clean' = TRUE
  /\ UNCHANGED <<checkoutFlow, server, localStorage, orderId, guestToken, events, requests,
                 deferCalls, phase, ops>>

\* store.find('order', orderId) rejected (the order is gone, or the network
\* failed): lines 118-126.
FetchRejected(p) ==
  /\ p \in pending /\ p.kind = "fetch"
  /\ pending' = pending \ {p}
  /\ advanceCalls' = ReadinessAfterFetch(advanceCalls)
  /\ persist(PersistedAfterFailedFetch.orderId, PersistedAfterFailedFetch.guestToken)
  /\ trigger("serverError")
  /\ last' = Result(0, "initCheckouts", IF Exists(p.order) THEN "network" ELSE "invalid",
                    "resolved", "error")
  /\ UNCHANGED <<checkoutFlow, server, store, currentOrder, current, requests, deferCalls, phase,
                 ops, tally, clean>>

\* Ember.Application: the application becomes ready once every deferral has
\* been advanced; didBecomeReady runs from the run loop, after the callback
\* that advanced the last one.
didBecomeReady ==
  /\ phase = "booted"
  /\ deferCalls = advanceCalls
  /\ phase' = "ready"
  /\ UNCHANGED <<checkoutFlow, server, localStorage, store, orderId, guestToken, currentOrder,
                 current, pending, events, requests, deferCalls, advanceCalls, ops,
                 last, tally, clean>>

\* A call can be made: the application is ready and the session's budget allows it.
CanCall == phase = "ready" /\ ops < MaxOps

\* ------------------------------------------------------------- the serializer
\* SpreeSerializer's serialize (this._super): the order's plain attributes.
SuperSerialize(order) == [email |-> order.email]

AddressSerialize(a) == <<"address", a>>
ShipmentSerialize(s) == <<"shipment", s>>
SourceSerialize(s) == <<"source", s>>

\* The source of the first payment is not asked whether it is dirty.
DirtyFirstPayment_AnyPayment(order) == Len(order.payments) > 0

\* order.get('payments.firstObject') exists and its source is dirty.
DirtyFirstPayment(order) ==
  Len(order.payments) > 0 /\ order.payments[1].sourceIsDirty

serialize(order) ==
  LET base == SuperSerialize(order)
      orderState == order.state
      orderPart ==
        CASE orderState = "address" ->
               (IF order.billAddress # ""
                  THEN "bill_address_attributes" :> AddressSerialize(order.billAddress)
                  ELSE <<>>)
               @@ (IF order.shipAddress # ""
                  THEN "ship_address_attributes" :> AddressSerialize(order.shipAddress)
                  ELSE <<>>)
               @@ base
          [] orderState = "delivery" ->
               IF order.shipments.defined
                 THEN ("shipments_attributes" :>
                         [i \in 0..(Len(order.shipments.items) - 1) |->
                            ShipmentSerialize(order.shipments.items[i + 1])])
                      @@ base
                 ELSE base
          [] orderState = "payment" ->
               IF DirtyFirstPayment(order)
                 THEN ("payments_attributes" :>
                         <<[payment_method_id |-> order.payments[1].paymentMethodId]>>)
                      @@ base
                 ELSE base
          [] OTHER -> base
      data == [order |-> orderPart, state |-> orderState]
  IN  IF orderState = "payment" /\ DirtyFirstPayment(order)
        THEN ("payment_source" :>
                (order.payments[1].paymentMethodId :> SourceSerialize(order.payments[1].source)))
             @@ data
        ELSE data

\* ------------------------------------------------------- the server's checkout
\* The state after the given one in the order's checkout flow.
ServerNextState(so) ==
  IF so.state = "cart" THEN so.steps[1]
  ELSE LET n == At(so.steps, IndexOf(so.steps, so.state) + 1)
       IN  IF n = "undefined" THEN "complete" ELSE n

\* The order may leave its state: a cart needs a line item, the address step
\* both addresses; a complete order goes nowhere.
ServerCanAdvance(so) ==
  CASE so.state = "cart"     -> \E v \in Variants : so.items[v] > 0
    [] so.state = "address"  -> so.bill /\ so.ship
    [] so.state = "complete" -> FALSE
    [] OTHER                 -> TRUE

\* The checkout endpoint's update: the attributes of the payload are applied.
ServerApply(so, data) ==
  [so EXCEPT !.bill = @ \/ "bill_address_attributes" \in DOMAIN data.order,
             !.ship = @ \/ "ship_address_attributes" \in DOMAIN data.order]

\* ------------------------------------------------------------------ the cart
\* The quantity replaces the line item's instead of being added to it.
MergedQuantity_Replaces(currentQuantity, quantity) == quantity

\* _saveLineItem, line 323-324: the quantity of an existing line item after a merge.
MergedQuantity(currentQuantity, quantity) == currentQuantity + quantity

\* _saveLineItem up to lineItem.save(): `st` and `pend` are the store and the
\* requests in flight as the caller leaves them.
_saveLineItem(n, variant, quantity, o, st, pend) ==
  LET i == findBy(st[o].lineItems, variant)
  IN  /\ store' = IF i # 0
                    THEN [st EXCEPT ![o].lineItems[i].quantity = MergedQuantity(@, quantity)]
                    ELSE st
      /\ pending' = pend \cup
           { Op(n, "lineItem", o, variant, quantity,
                IF i # 0 THEN MergedQuantity(st[o].lineItems[i].quantity, quantity) ELSE quantity,
                i = 0, NoData, "") }
      /\ request("lineItem")

\* A create-order request in flight makes addToCart wait: no second one is issued.
addToCart_OneCreateAtATime(variant, quantity) ==
  /\ CanCall
  /\ currentOrder = Null => ~\E p \in pending : p.kind = "create"
  /\ ops' = ops + 1
  /\ IF currentOrder # Null
       THEN _saveLineItem(ops + 1, variant, quantity, currentOrder, store, pending)
       ELSE /\ pending' = pending \cup
                 {Op(ops + 1, "create", Null, variant, quantity, quantity, TRUE, NoData, "")}
            /\ request("create")
            /\ UNCHANGED store
  /\ last' = Result(ops + 1, "addToCart", "none", "returned", "promise")
  /\ clean' = (clean /\ pending = {})
  /\ UNCHANGED <<checkoutFlow, server, localStorage, orderId, guestToken, currentOrder, current,
                 events, deferCalls, advanceCalls, phase, tally>>

addToCart(variant, quantity) ==
  /\ CanCall
  /\ ops' = ops + 1
  /\ IF currentOrder # Null
       THEN _saveLineItem(ops + 1, variant, quantity, currentOrder, store, pending)
       ELSE /\ pending' = pending \cup
                 {Op(ops + 1, "create", Null, variant, quantity, quantity, TRUE, NoData, "")}
            /\ request("create")
            /\ UNCHANGED store
  /\ last' = Result(ops + 1, "addToCart", "none", "returned", "promise")
  /\ clean' = (clean /\ pending = {})
  /\ UNCHANGED <<checkoutFlow, server, localStorage, orderId, guestToken, currentOrder, current,
                 events, deferCalls, advanceCalls, phase, tally>>

\* The order record of a newly created order.
NewOrder(id, steps) == Loaded(id, ServerOrder("cart", NoItems, FALSE, steps, id))

\* The new order's id is not persisted.
PersistedAfterCreate_NoOrderId(newOrder) ==
  [guestToken |-> newOrder.guestToken, orderId |-> Null]

\* Lines 359-362: what _createNewOrder persists.
PersistedAfterCreate(newOrder) ==
  [guestToken |-> newOrder.guestToken, orderId |-> newOrder.id]

\* _createNewOrder's request succeeded (lines 357-366), then addToCart's
\* callback (lines 294-296).
CreateResolved(p) ==
  /\ p \in pending /\ p.kind = "create"
  /\ LET id == Len(server) + 1
         newOrder == NewOrder(id, checkoutFlow)
     IN    /\ server' = Append(server, ServerOrder("cart", NoItems, FALSE, checkoutFlow, id))
           /\ currentOrder' = id
           /\ persist(PersistedAfterCreate(newOrder).orderId,
                      PersistedAfterCreate(newOrder).guestToken)
           /\ trigger("didCreateNewOrder")
           /\ current' = MachineInitial(newOrder)
           /\ _saveLineItem(p.id, p.variant, p.addQty, id, (id :> newOrder) @@ store,
                            pending \ {p})
  /\ last' = Result(p.id, "_createNewOrder", "ok", "resolved", "order")
  /\ tally' = NoItems
  /\ clean' = (pending = {p})
  /\ UNCHANGED <<checkoutFlow, deferCalls, advanceCalls, phase, ops>>

\* What addToCart's promise settles with after _createNewOrder's request
\* failed: _createNewOrder's error handler returns the error, so its promise
\* is fulfilled with it and addToCart's success callback runs
\* _saveLineItem(variant, quantity, error), whose order.get('lineItems') throws.
AddToCartAfterCreateError == [outcome |-> "rejected", value |-> "TypeError"]

\* _createNewOrder's request failed: lines 367-370, then lines 294-296.
CreateRejected(p) ==
  /\ p \in pending /\ p.kind = "create"
  /\ pending' = pending \ {p}
  /\ trigger("serverError")
  /\ last' = Result(p.id, "addToCart", "network",
                    AddToCartAfterCreateError.outcome, AddToCartAfterCreateError.value)
  /\ UNCHANGED <<checkoutFlow, server, localStorage, store, orderId, guestToken, currentOrder,
                 current, requests, deferCalls, advanceCalls, phase, ops, tally, clean>>

\* The line items of an order after the saved line item of a response is
\* loaded: a new record joins the order's line items, an existing one takes
\* the response's quantity.
WithSavedLineItem(lineItems, isNew, variant, quantity) ==
  LET i == findBy(lineItems, variant)
  IN  IF isNew THEN Append(lineItems, [variant |-> variant, quantity |-> quantity])
      ELSE IF i # 0 THEN [lineItems EXCEPT ![i].quantity = quantity]
      ELSE lineItems

\* The server saves a line item: a new one is added to the order's contents
\* (merged into the variant's line item), an existing one takes the quantity sent.
ServerSaveLineItem(so, isNew, variant, quantity) ==
  [so EXCEPT !.items[variant] = IF isNew THEN @ + quantity ELSE quantity]

\* lineItem.save() resolved: lines 333-336.
LineItemResolved(p) ==
  /\ p \in pending /\ p.kind = "lineItem"
  /\ Exists(p.order)
  /\ LET so == ServerSaveLineItem(server[p.order], p.isNew, p.variant, p.quantity)
     IN  /\ server' = [server EXCEPT ![p.order] = so]
         /\ store' = [store EXCEPT ![p.order].lineItems =
                        WithSavedLineItem(@, p.isNew, p.variant, so.items[p.variant])]
         /\ last' = [Result(p.id, "addToCart", "ok", "resolved", "lineItem")
                       EXCEPT !.variant = p.variant, !.quantity = so.items[p.variant],
                              !.addQty = p.addQty]
  /\ pending' = pending \ {p}
  /\ trigger("didAddToCart")
  /\ tally' = IF p.order = currentOrder THEN [tally EXCEPT ![p.variant] = @ + p.addQty]
              ELSE tally
  /\ UNCHANGED <<checkoutFlow, localStorage, orderId, guestToken, currentOrder, current, requests,
                 deferCalls, advanceCalls, phase, ops, clean>>

\* lineItem.save() rejected: lines 337-340.
LineItemRejected(p) ==
  /\ p \in pending /\ p.kind = "lineItem"
  /\ pending' = pending \ {p}
  /\ trigger("serverError")
  /\ last' = Result(p.id, "addToCart", "network", "resolved", "error")
  /\ clean' = (clean /\ p.order # currentOrder)
  /\ UNCHANGED <<checkoutFlow, server, localStorage, store, orderId, guestToken, currentOrder,
                 current, requests, deferCalls, advanceCalls, phase, ops, tally>>

\* The persisted identifiers are cleared and the current order is kept.
clearCurrentOrder_KeepsOrder ==
  /\ CanCall
  /\ ops' = ops + 1
  /\ persist(Null, NoToken)
  /\ last' = Result(ops + 1, "clearCurrentOrder", "none", "returned", "true")
  /\ clean' = (clean /\ pending = {})
  /\ UNCHANGED <<checkoutFlow, server, store, currentOrder, current, pending, events,
                 requests, deferCalls, advanceCalls, phase, tally>>

clearCurrentOrder ==
  /\ CanCall
  /\ ops' = ops + 1
  /\ persist(Null, NoToken)
  /\ currentOrder' = Null
  /\ last' = Result(ops + 1, "clearCurrentOrder", "none", "returned", "true")
  /\ clean' = (clean /\ pending = {})
  /\ UNCHANGED <<checkoutFlow, server, store, current, pending, events, requests, deferCalls,
                 advanceCalls, phase, tally>>

\* ------------------------------------------------------- saving and advancing
\* spree.set('currentOrder.billAddress', ...) and the same for shipAddress, as
\* a checkout form does before it saves the order.
setAddresses ==
  /\ CanCall
  /\ currentOrder # Null
  /\ ops' = ops + 1
  /\ store' = [store EXCEPT ![currentOrder].billAddress = "address1",
                            ![currentOrder].shipAddress = "address1"]
  /\ last' = Result(ops + 1, "setAddresses", "none", "returned", "undefined")
  /\ clean' = (clean /\ pending = {})
  /\ UNCHANGED <<checkoutFlow, server, localStorage, orderId, guestToken, currentOrder, current,
                 pending, events, requests, deferCalls, advanceCalls, phase, tally>>

\* saveCurrentOrder up to adapter.ajax (lines 228-235); `event` names the
\* transition event that called it, "" when the caller is the user.
\* order.get('id') throws when there is no current order.
StartSave(n, event, data) ==
  /\ pending' = pending \cup {Op(n, "save", currentOrder, "", 0, 0, FALSE, data, event)}
  /\ request("save")

saveCurrentOrder ==
  /\ CanCall
  /\ ops' = ops + 1
  /\ IF currentOrder # Null
       THEN /\ StartSave(ops + 1, "", serialize(store[currentOrder]))
            /\ last' = Result(ops + 1, "saveCurrentOrder", "none", "returned", "promise")
       ELSE /\ last' = Result(ops + 1, "saveCurrentOrder", "none", "threw", "TypeError")
            /\ UNCHANGED <<pending, requests>>
  /\ clean' = (clean /\ pending = {})
  /\ UNCHANGED <<checkoutFlow, server, localStorage, store, orderId, guestToken, currentOrder,
                 current, events, deferCalls, advanceCalls, phase, tally>>

advanceCurrentOrder ==
  /\ CanCall
  /\ ops' = ops + 1
  /\ IF currentOrder # Null
       THEN /\ pending' = pending \cup
                 {Op(ops + 1, "advance", currentOrder, "", 0, 0, FALSE, NoData, "")}
            /\ request("advance")
            /\ last' = Result(ops + 1, "advanceCurrentOrder", "none", "returned", "promise")
       ELSE /\ last' = Result(ops + 1, "advanceCurrentOrder", "none", "threw", "TypeError")
            /\ UNCHANGED <<pending, requests>>
  /\ clean' = (clean /\ pending = {})
  /\ UNCHANGED <<checkoutFlow, server, localStorage, store, orderId, guestToken, currentOrder,
                 current, events, deferCalls, advanceCalls, phase, tally>>

OpName(p) == IF p.kind = "save" THEN "saveCurrentOrder" ELSE "advanceCurrentOrder"

\* The payload of the response is not pushed into the store.
pushPayload_Skipped(st, id, so) == st

\* The success callback of saveCurrentOrder and advanceCurrentOrder (lines
\* 236-239, 265-268): the payload is pushed into the store and the order record
\* it names is what the promise resolves to.
pushPayload(st, id, so) == (id :> Loaded(id, so)) @@ st

\* The machine's state once a transition event's save has succeeded: the state
\* of the order the server confirmed.
MachineAfterEvent(order) == order.state

\* The request of saveCurrentOrder or advanceCurrentOrder succeeded: the server
\* applied the payload and moved the order to its next state.
CheckoutResolved(p) ==
  /\ p \in pending /\ p.kind \in {"save", "advance"}
  /\ Exists(p.order)
  /\ LET applied == IF p.kind = "save" THEN ServerApply(server[p.order], p.data)
                    ELSE server[p.order]
         so == [applied EXCEPT !.state = ServerNextState(applied)]
     IN  /\ ServerCanAdvance(applied)
         /\ server' = [server EXCEPT ![p.order] = so]
         /\ store' = pushPayload(store, p.order, so)
         /\ last' = [Result(p.id, OpName(p), "ok", "resolved", "order")
                       EXCEPT !.state = store'[p.order].state, !.event = p.event]
         /\ current' = IF p.event # "" THEN MachineAfterEvent(store'[p.order]) ELSE current
  /\ pending' = pending \ {p}
  /\ UNCHANGED <<checkoutFlow, localStorage, orderId, guestToken, currentOrder, events, requests,
                 deferCalls, advanceCalls, phase, ops, tally, clean>>

\* The error callback throws the error on instead of returning it.
OnCheckoutError_Rethrows == [outcome |-> "rejected", value |-> "error"]

\* The error callback of saveCurrentOrder and advanceCurrentOrder (lines
\* 240-243, 269-272): what the promise settles with.
OnCheckoutError == [outcome |-> "resolved", value |-> "error"]

\* The error callback also drops the current order.
CheckoutRejected_DropsOrder(p) ==
  /\ p \in pending /\ p.kind \in {"save", "advance"}
  /\ pending' = pending \ {p}
  /\ trigger("serverError")
  /\ currentOrder' = Null
  /\ last' = [Result(p.id, OpName(p), "network", OnCheckoutError.outcome,
                     OnCheckoutError.value) EXCEPT !.event = p.event]
  /\ UNCHANGED <<checkoutFlow, server, localStorage, store, orderId, guestToken, current,
                 requests, deferCalls, advanceCalls, phase, ops, tally, clean>>

\* The request of saveCurrentOrder or advanceCurrentOrder was rejected: the
\* order could not leave its state (the response carries the validation
\* errors), or the network failed.
CheckoutRejected(p) ==
  /\ p \in pending /\ p.kind \in {"save", "advance"}
  /\ LET applied == IF p.kind = "save" /\ Exists(p.order)
                      THEN ServerApply(server[p.order], p.data)
                      ELSE server[p.order]
     IN  \/ /\ Exists(p.order) /\ ~ServerCanAdvance(applied)
            /\ server' = [server EXCEPT ![p.order] = applied]
            /\ last' = [Result(p.id, OpName(p), "invalid", OnCheckoutError.outcome,
                               OnCheckoutError.value) EXCEPT !.event = p.event]
         \/ /\ server' = server
            /\ last' = [Result(p.id, OpName(p), "network", OnCheckoutError.outcome,
                               OnCheckoutError.value) EXCEPT !.event = p.event]
  /\ pending' = pending \ {p}
  /\ trigger("serverError")
  /\ UNCHANGED <<checkoutFlow, localStorage, store, orderId, guestToken, currentOrder, current,
                 requests, deferCalls, advanceCalls, phase, ops, tally, clean>>

\* ------------------------------------------------------ transitionCheckoutState
\* The check for the "complete" state is left out.
NextStateName_NoCompleteCheck(stateName, cur, hasOrder, allStates) ==
  IF stateName # "" THEN [kind |-> "name", name |-> stateName]
  ELSE IF ~hasOrder THEN [kind |-> "TypeError", name |-> ""]
  ELSE IF cur = "cart" THEN [kind |-> "name", name |-> At(allStates, 0)]
  ELSE [kind |-> "name", name |-> At(allStates, IndexOf(allStates, cur) + 1)]

\* The state name passed is used only when it follows the current state.
NextStateName_ChecksTarget(stateName, cur, hasOrder, allStates) ==
  IF stateName # "" /\ (~hasOrder \/ IndexOf(allStates, stateName) > IndexOf(allStates, cur))
    THEN [kind |-> "name", name |-> stateName]
  ELSE IF cur = "complete" THEN [kind |-> "Error", name |-> ""]
  ELSE IF hasOrder
    THEN [kind |-> "name",
          name |-> At(allStates, IF cur = "cart" THEN 0 ELSE IndexOf(allStates, cur) + 1)]
    ELSE [kind |-> "TypeError", name |-> ""]

\* Lines 194-207: the name of the next state, or the error thrown instead.
\* `stateName` is "" when the caller passes none; `hasOrder` tells whether
\* currentOrder.checkoutSteps is defined (allStates) or undefined.
NextStateName(stateName, cur, hasOrder, allStates) ==
  IF stateName # "" THEN [kind |-> "name", name |-> stateName]
  ELSE IF cur = "cart"
    THEN IF hasOrder THEN [kind |-> "name", name |-> At(allStates, 0)]
         ELSE [kind |-> "TypeError", name |-> ""]
  ELSE IF cur = "complete" THEN [kind |-> "Error", name |-> ""]
  ELSE IF hasOrder
    THEN [kind |-> "name", name |-> At(allStates, IndexOf(allStates, cur) + 1)]
    ELSE [kind |-> "TypeError", name |-> ""]

\* Lines 209-211: this.transitionTo<Name>() is called when the name is a string
\* and the machine on the service has that event.
EventInvoked(next, cur) ==
  next.kind = "name" /\ next.name \in EventNames /\ cur # "none"

\* A transition event of the machine: it saves the current order, formatted
\* for the target state.
TransitionEvent(n, target) ==
  StartSave(n, target, serialize([store[currentOrder] EXCEPT !.state = target]))

transitionCheckoutState(stateName) ==
  /\ CanCall
  /\ ops' = ops + 1
  /\ LET next == NextStateName(stateName, current, currentOrder # Null,
                               IF currentOrder # Null THEN store[currentOrder].checkoutSteps
                               ELSE <<>>)
     IN  IF EventInvoked(next, current)
           THEN IF currentOrder # Null
                  THEN /\ TransitionEvent(ops + 1, next.name)
                       /\ last' = [Result(ops + 1, "transitionCheckoutState", "none",
                                          "returned", "promise")
                                     EXCEPT !.event = next.name, !.arg = stateName]
                  ELSE /\ last' = [Result(ops + 1, "transitionCheckoutState", "none",
                                          "threw", "TypeError")
                                     EXCEPT !.event = next.name, !.arg = stateName]
                       /\ UNCHANGED <<pending, requests>>
           ELSE /\ last' = [Result(ops + 1, "transitionCheckoutState", "none", "threw",
                                   IF next.kind = "name" THEN "TypeError" ELSE next.kind)
                              EXCEPT !.arg = stateName]
                /\ UNCHANGED <<pending, requests>>
  /\ clean' = (clean /\ pending = {})
  /\ UNCHANGED <<checkoutFlow, server, localStorage, store, orderId, guestToken, currentOrder,
                 current, events, deferCalls, advanceCalls, phase, tally>>

Next ==
  \/ initCheckouts
  \/ \E p \in pending : FetchResolved(p)
  \/ \E p \in pending : FetchRejected(p)
  \/ didBecomeReady
  \/ \E v \in Variants, q \in Quantities : addToCart(v, q)
  \/ \E p \in pending : CreateResolved(p)
  \/ \E p \in pending : CreateRejected(p)
  \/ \E p \in pending : LineItemResolved(p)
  \/ \E p \in pending : LineItemRejected(p)
  \/ clearCurrentOrder
  \/ setAddresses
  \/ saveCurrentOrder
  \/ advanceCurrentOrder
  \/ \E p \in pending : CheckoutResolved(p)
  \/ \E p \in pending : CheckoutRejected(p)
  \/ \E stateName \in {""} \cup EventNames : transitionCheckoutState(stateName)

Spec == Init /\ [][Next]_vars

\* The cart of a session: adding to it and clearing it.
NextCart ==
  \/ initCheckouts
  \/ \E p \in pending : FetchResolved(p)
  \/ \E p \in pending : FetchRejected(p)
  \/ didBecomeReady
  \/ \E v \in Variants, q \in Quantities : addToCart(v, q)
  \/ \E p \in pending : CreateResolved(p)
  \/ \E p \in pending : CreateRejected(p)
  \/ \E p \in pending : LineItemResolved(p)
  \/ \E p \in pending : LineItemRejected(p)
  \/ clearCurrentOrder

SpecCart == InitCart /\ [][NextCart]_vars

\* The steps of the startup: the fetch settles (a request runs to completion or
\* failure) and the run loop runs didBecomeReady once nothing defers it.
StartupSteps ==
  \/ initCheckouts
  \/ \E p \in pending : FetchResolved(p)
  \/ \E p \in pending : FetchRejected(p)
  \/ didBecomeReady

FairSpecCart == SpecCart /\ WF_vars(StartupSteps)

\* The checkout of a restored order: saving, advancing and transitioning it.
NextCheckout ==
  \/ initCheckouts
  \/ \E p \in pending : FetchResolved(p)
  \/ \E p \in pending : FetchRejected(p)
  \/ didBecomeReady
  \/ clearCurrentOrder
  \/ setAddresses
  \/ saveCurrentOrder
  \/ advanceCurrentOrder
  \/ \E p \in pending : CheckoutResolved(p)
  \/ \E p \in pending : CheckoutRejected(p)
  \/ \E stateName \in {""} \cup EventNames : transitionCheckoutState(stateName)

SpecCheckout == Init /\ [][NextCheckout]_vars

\* The current order reference of a session: every operation that sets it or
\* is said to leave it alone.
NextOrderRef ==
  \/ initCheckouts
  \/ \E p \in pending : FetchResolved(p)
  \/ \E p \in pending : FetchRejected(p)
  \/ didBecomeReady
  \/ \E v \in Variants, q \in Quantities : addToCart(v, q)
  \/ \E p \in pending : CreateResolved(p)
  \/ \E p \in pending : CreateRejected(p)
  \/ \E p \in pending : LineItemResolved(p)
  \/ \E p \in pending : LineItemRejected(p)
  \/ clearCurrentOrder
  \/ saveCurrentOrder
  \/ advanceCurrentOrder
  \/ \E p \in pending : CheckoutResolved(p)
  \/ \E p \in pending : CheckoutRejected(p)

SpecOrderRef == InitCart /\ [][NextOrderRef]_vars

\* ------------------------------------------------ calls before the application is ready
\* initCheckouts has returned and its fetch is in flight: the service's methods
\* can be called by whoever holds the service (another initializer, a test).
CanCallEarly ==
  phase = "booted" /\ (\E p \in pending : p.kind = "fetch") /\ ops < MaxOps

\* addToCart (lines 286-303) called while the startup fetch is in flight.
addToCartBeforeReady(variant, quantity) ==
  /\ CanCallEarly
  /\ ops' = ops + 1
  /\ IF currentOrder # Null
       THEN _saveLineItem(ops + 1, variant, quantity, currentOrder, store, pending)
       ELSE /\ pending' = pending \cup
                 {Op(ops + 1, "create", Null, variant, quantity, quantity, TRUE, NoData, "")}
            /\ request("create")
            /\ UNCHANGED store
  /\ last' = Result(ops + 1, "addToCart", "none", "returned", "promise")
  /\ clean' = FALSE
  /\ UNCHANGED <<checkoutFlow, server, localStorage, orderId, guestToken, currentOrder, current,
                 events, deferCalls, advanceCalls, phase, tally>>

\* clearCurrentOrder (lines 380-387) called while the startup fetch is in flight.
clearCurrentOrderBeforeReady ==
  /\ CanCallEarly
  /\ ops' = ops + 1
  /\ persist(Null, NoToken)
  /\ currentOrder' = Null
  /\ last' = Result(ops + 1, "clearCurrentOrder", "none", "returned", "true")
  /\ clean' = FALSE
  /\ UNCHANGED <<checkoutFlow, server, store, current, pending, events, requests, deferCalls,
                 advanceCalls, phase, tally>>

\* The cart of a session whose first calls may come before the application is ready.
NextEarly ==
  \/ initCheckouts
  \/ \E p \in pending : FetchResolved(p)
  \/ \E p \in pending : FetchRejected(p)
  \/ didBecomeReady
  \/ \E v \in Variants, q \in Quantities : addToCartBeforeReady(v, q)
  \/ clearCurrentOrderBeforeReady
  \/ \E v \in Variants, q \in Quantities : addToCart(v, q)
  \/ \E p \in pending : CreateResolved(p)
  \/ \E p \in pending : CreateRejected(p)
  \/ \E p \in pending : LineItemResolved(p)
  \/ \E p \in pending : LineItemRejected(p)
  \/ clearCurrentOrder

SpecEarly == InitCart /\ [][NextEarly]_vars

\* ------------------------------------------------- the orders of the serializer
\* order.get('shipments'): undefined, or a collection of none, one or two shipments.
ShipmentChoices ==
  { [defined |-> FALSE, items |-> <<>>],
    [defined |-> TRUE, items |-> <<>>],
    [defined |-> TRUE, items |-> <<"s1">>],
    [defined |-> TRUE, items |-> <<"s1", "s2">>] }

\* A payment: its payment method, its source ("none": it has none) and whether
\* the source has unsaved changes.
Payments ==
  { p \in [paymentMethodId : {"pm1", "pm2"}, source : {"none", "card1"},
           sourceIsDirty : BOOLEAN] :
      p.source = "none" => ~p.sourceIsDirty }

\* order.get('payments'): no payment, one, or one followed by a later payment
\* whose source is dirty.
PaymentChoices ==
  {<<>>} \cup { <<p>> : p \in Payments }
         \cup { <<p, [paymentMethodId |-> "pm2", source |-> "card2", sourceIsDirty |-> TRUE]>> :
                  p \in Payments }

\* A session whose order was restored at startup, in any state, with the
\* addresses the user has entered and the shipments and payments loaded with it.
InitSerialize ==
  /\ checkoutFlow \in StepsChoices
  /\ \E so \in RestorableOrders(OrderStates, checkoutFlow) : server = <<so>>
  /\ localStorage = [orderId |-> 1, guestToken |-> Token(1)]
  /\ \E bill \in {"", "address1"}, ship \in {"", "address1"},
        sh \in ShipmentChoices, pay \in PaymentChoices :
       store = (1 :> [Loaded(1, server[1]) EXCEPT !.billAddress = bill, !.shipAddress = ship,
                                                  !.shipments = sh, !.payments = pay])
  /\ orderId = 1
  /\ guestToken = Token(1)
  /\ currentOrder = 1
  /\ current = MachineInitial(store[1])
  /\ pending = {}
  /\ events = [serverError |-> 0, didAddToCart |-> 0, didCreateNewOrder |-> 0]
  /\ requests = [fetch |-> 1, create |-> 0, lineItem |-> 0, save |-> 0, advance |-> 0]
  /\ deferCalls = 1
  /\ advanceCalls = ReadinessAfterFetch(0)
  /\ phase = "ready"
  /\ ops = 0
  /\ last = [Result(0, "initCheckouts", "ok", "resolved", "undefined")
               EXCEPT !.state = server[1].state]
  /\ tally = server[1].items
  /\ clean = TRUE

\* The serializer at work: the current order is saved as it is.
NextSerialize == saveCurrentOrder

SpecSerialize == InitSerialize /\ [][NextSerialize]_vars

\* ------------------------------------------------------------------ claims
\* The step is a call of `op` by the user.
IsCall(op) == ops' = ops + 1 /\ last'.op = op

\* The step settles the request `p`.
Settles(p) == p \in pending /\ p \notin pending'

NothingPersisted ==
  /\ orderId = Null
  /\ guestToken = NoToken
  /\ localStorage = [orderId |-> Null, guestToken |-> NoToken]

\* The positions of the line items of `variant` in the current order.
LineItemsOf(variant) ==
  {i \in 1..Len(store[currentOrder].lineItems) :
     store[currentOrder].lineItems[i].variant = variant}

\* C1: addToCart calls made one after the other, each resolved successfully
\* before the next starts, leave the order with exactly one line item per
\* variant added, whose quantity is the sum of the quantities added (q1+q2 for
\* two calls), never two line items and never the last quantity alone.
C1_SequentialAddsMerge ==
  (clean /\ pending = {} /\ currentOrder # Null) =>
    \A v \in Variants :
      IF tally[v] = 0 THEN LineItemsOf(v) = {}
      ELSE /\ Cardinality(LineItemsOf(v)) = 1
           /\ \A i \in LineItemsOf(v) : store[currentOrder].lineItems[i].quantity = tally[v]
           /\ server[currentOrder].items[v] = tally[v]

\* Two addToCart calls of one variant into a new session's cart have resolved:
\* one line item holds more than one call can add.
C1_Witness ==
  /\ clean /\ pending = {} /\ currentOrder # Null
  /\ requests.fetch = 0 /\ requests.create = 1
  /\ events.didAddToCart = 2
  /\ \E v \in Variants :
       /\ tally[v] > MaxQty
       /\ Len(store[currentOrder].lineItems) = 1
       /\ store[currentOrder].lineItems[1] = [variant |-> v, quantity |-> tally[v]]

\* C2: in a session that starts empty, when the first call, an addToCart(v, q),
\* has resolved successfully, exactly one create-order request was issued, the
\* current order is the order the server created, the persisted orderId and
\* guestToken are that order's, and the order holds the one line item (v, q).
C2_FirstAddCreatesOrder ==
  (requests.fetch = 0 /\ ops = 1 /\ pending = {} /\ last.op = "addToCart"
     /\ last.response = "ok") =>
    /\ requests.create = 1
    /\ Len(server) = 1 /\ currentOrder = 1
    /\ orderId = currentOrder
    /\ guestToken = server[currentOrder].token
    /\ localStorage = [orderId |-> orderId, guestToken |-> guestToken]
    /\ store[currentOrder].lineItems = <<[variant |-> last.variant, quantity |-> last.addQty]>>
    /\ server[currentOrder].items = [NoItems EXCEPT ![last.variant] = last.addQty]

C2_Witness ==
  /\ requests.fetch = 0 /\ ops = 1 /\ pending = {}
  /\ last.op = "addToCart" /\ last.response = "ok"
  /\ last.variant = "v2" /\ last.addQty = 2
  /\ currentOrder = 1 /\ orderId = 1 /\ events.didCreateNewOrder = 1

\* C3: clearCurrentOrder can be called in every state a call can be made in and
\* returns true; right after it the current order is none, the persisted
\* orderId and guestToken are none, and it issued no request: the requests
\* counted and in flight and the server's orders are as before.
C3_ClearCurrentOrder ==
  /\ [](CanCall => ENABLED clearCurrentOrder)
  /\ [][IsCall("clearCurrentOrder") =>
          /\ last'.outcome = "returned" /\ last'.value = "true"
          /\ currentOrder' = Null
          /\ NothingPersisted'
          /\ requests' = requests
          /\ pending' = pending
          /\ server' = server]_vars

\* The current order of a session with a server-side order and a request in
\* flight has been cleared.
C3_Witness ==
  /\ last.op = "clearCurrentOrder"
  /\ currentOrder = Null /\ NothingPersisted
  /\ Len(server) = 1 /\ server[1].items # NoItems
  /\ pending # {}

\* The checkout steps of the current order.
CurrentSteps == store[currentOrder].checkoutSteps

\* The step checkoutSteps names after the machine's current state.
StepAfterCurrent ==
  IF current = "cart" THEN At(CurrentSteps, 0)
  ELSE At(CurrentSteps, IndexOf(CurrentSteps, current) + 1)

\* C4: transitionCheckoutState() without a target, on a current order whose
\* machine is in cart or another state that is not complete, invokes the
\* transition event of checkoutSteps[0] from cart and of
\* checkoutSteps[index(current)+1] otherwise, and that step is a member of the
\* order's checkoutSteps.
C4_NextStepIsACheckoutStep ==
  [][(IsCall("transitionCheckoutState") /\ last'.arg = "" /\ currentOrder # Null
        /\ current \notin {"none", "complete"}) =>
       /\ last'.event = StepAfterCurrent
       /\ \E i \in 1..Len(CurrentSteps) : CurrentSteps[i] = last'.event]_vars

\* C5: with the machine in complete, transitionCheckoutState() without a target
\* throws the usage error: no transition event is invoked, no request is
\* issued, and the current order, the store, the machine's state, the persisted
\* identifiers and the server are unchanged.
C5_NoTransitionPastComplete ==
  [][(IsCall("transitionCheckoutState") /\ last'.arg = "" /\ current = "complete") =>
       /\ last'.outcome = "threw" /\ last'.value = "Error"
       /\ last'.event = ""
       /\ UNCHANGED <<requests, pending, server, currentOrder, store, current,
                      orderId, guestToken, localStorage, events>>]_vars

\* The usage error was thrown for a current order that is complete.
C5_Witness ==
  /\ last.op = "transitionCheckoutState" /\ last.arg = ""
  /\ last.outcome = "threw" /\ last.value = "Error"
  /\ currentOrder # Null /\ current = "complete"
  /\ store[currentOrder].state = "complete"

\* C6: transitionCheckoutState(target) invokes the transition event of exactly
\* the target, whatever the machine's current state and the order's
\* checkoutSteps are.
C6_ExplicitTargetIsInvoked ==
  [][(IsCall("transitionCheckoutState") /\ last'.arg # "" /\ current # "none") =>
       last'.event = last'.arg]_vars

\* The event of an earlier step was invoked on a complete order, and the event
\* of a later step on a cart.
C6_Witness ==
  /\ last.op = "transitionCheckoutState" /\ currentOrder # Null
  /\ \/ current = "complete" /\ last.arg = "address" /\ last.event = "address"
     \/ current = "cart" /\ last.arg = "payment" /\ last.event = "payment"
  /\ \E p \in pending : p.kind = "save" /\ p.event = last.arg

\* C7: when the request of saveCurrentOrder or advanceCurrentOrder is rejected,
\* serverError is triggered exactly once, the promise of the call resolves to
\* the error, and the current order, the store (the order's state), the
\* machine's state and the persisted identifiers are unchanged.
C7_RejectedCheckoutRequest ==
  [][\A p \in pending :
       (p.kind \in {"save", "advance"} /\ Settles(p)
          /\ last'.response \in {"invalid", "network"}) =>
         /\ events' = [events EXCEPT !.serverError = @ + 1]
         /\ last'.n = p.id
         /\ last'.outcome = "resolved" /\ last'.value = "error"
         /\ UNCHANGED <<currentOrder, store, current, orderId, guestToken,
                        localStorage>>]_vars

\* A save and an advance of the current order were both rejected.
C7_Witness ==
  /\ last.op \in {"saveCurrentOrder", "advanceCurrentOrder"}
  /\ last.response \in {"invalid", "network"}
  /\ last.outcome = "resolved" /\ last.value = "error"
  /\ events.serverError = 2
  /\ requests.save = 1 /\ requests.advance = 1
  /\ currentOrder # Null /\ current = store[currentOrder].state

\* The startup fetch has settled without loading the persisted order.
RestoreFailed ==
  requests.fetch = 1 /\ advanceCalls = 1 /\ 1 \notin DOMAIN store

FetchPending == \E p \in pending : p.kind = "fetch"

\* C8: once the fetch of the persisted order has failed, the persisted orderId
\* and guestToken are none, the current order is none and serverError was
\* triggered exactly once; the addToCart that follows issues a create-order
\* request, as in a fresh session, and the order it makes current is a new one,
\* whose id is persisted.
C8_FailedRestoreHeals ==
  /\ []((RestoreFailed /\ ops = 0) =>
          /\ NothingPersisted
          /\ currentOrder = Null
          /\ events.serverError = 1)
  /\ []((RestoreFailed /\ ops = 1 /\ currentOrder # Null) =>
          /\ currentOrder # 1
          /\ orderId = currentOrder
          /\ guestToken = server[currentOrder].token)
  /\ [][(RestoreFailed /\ ops = 0 /\ IsCall("addToCart")) =>
          /\ requests'.create = requests.create + 1
          /\ \E p \in pending' : p.kind = "create" /\ p.id = ops']_vars

\* After a failed restore, an addToCart has created and filled a new order.
C8_Witness ==
  /\ RestoreFailed /\ ops = 1 /\ pending = {}
  /\ events.serverError = 1 /\ events.didCreateNewOrder = 1 /\ events.didAddToCart = 1
  /\ currentOrder = 2 /\ orderId = 2
  /\ server[1].state = "gone"

\* C9: initCheckouts defers readiness once exactly when an order id is
\* persisted and never otherwise; the deferral is advanced once, by the callback
\* that settles the fetch, whether it resolved or failed, so that every deferral
\* is advanced once no fetch is in flight and the application eventually
\* becomes ready; and when it becomes ready the current order is the fetched
\* order with the machine in its state, or none with nothing persisted.
C9_ReadinessGating ==
  /\ <>(phase = "ready")
  /\ [](deferCalls <= 1
        /\ advanceCalls = (IF deferCalls = 1 /\ ~FetchPending THEN 1 ELSE 0)
        /\ (phase = "ready" => deferCalls = advanceCalls))
  /\ [][(phase = "init" /\ phase' # "init") =>
          /\ deferCalls' = (IF localStorage.orderId # Null THEN 1 ELSE 0)
          /\ FetchPending' = (localStorage.orderId # Null)]_vars
  /\ [][(phase # "ready" /\ phase' = "ready") =>
          /\ ~FetchPending
          /\ \/ /\ currentOrder # Null
                /\ currentOrder = orderId
                /\ currentOrder \in DOMAIN store
                /\ Exists(currentOrder)
                /\ store[currentOrder].state = server[currentOrder].state
                /\ current = store[currentOrder].state
             \/ /\ currentOrder = Null
                /\ NothingPersisted]_vars

\* The application became ready after a failed fetch, and after a fetch that
\* found the order.
C9_Witness ==
  /\ phase = "ready" /\ ops = 0 /\ deferCalls = 1 /\ advanceCalls = 1
  /\ \/ RestoreFailed /\ currentOrder = Null /\ NothingPersisted
     \/ currentOrder = 1 /\ current = "cart" /\ orderId = 1

\* C10: the request of advanceCurrentOrder on an order in cart, when it
\* succeeds, resolves the promise to the order in state address; on an order
\* in address with an address missing, the server's answer carries validation
\* errors, the promise resolves to that error and the local order stays in
\* address.
C10_AdvanceFromCartThenStall ==
  [][\A p \in pending :
       (p.kind = "advance" /\ Settles(p) /\ last'.response # "network") =>
         /\ (server[p.order].state = "cart" /\ last'.response = "ok") =>
              /\ last'.outcome = "resolved" /\ last'.value = "order"
              /\ last'.state = "address"
              /\ store'[p.order].state = "address"
         /\ (server[p.order].state = "address" /\ store[p.order].state = "address"
               /\ ~(server[p.order].bill /\ server[p.order].ship)) =>
              /\ last'.response = "invalid"
              /\ last'.outcome = "resolved" /\ last'.value = "error"
              /\ store'[p.order].state = "address"
              /\ server'[p.order].state = "address"]_vars

\* A cart was advanced to address, and the second advance came back with
\* validation errors.
C10_Witness ==
  /\ ops = 2 /\ requests.advance = 2 /\ pending = {}
  /\ last.op = "advanceCurrentOrder" /\ last.n = 2 /\ last.response = "invalid"
  /\ last.outcome = "resolved" /\ last.value = "error"
  /\ events.serverError = 1
  /\ currentOrder = 1 /\ store[1].state = "address" /\ server[1].state = "address"
  /\ store[1].billAddress = ""

\* The positions of the line items of `variant` in the loaded order `o`.
LineItemsIn(o, variant) ==
  {i \in 1..Len(store[o].lineItems) : store[o].lineItems[i].variant = variant}

\* C11: in every reachable state, those reached by addToCart calls of one
\* variant that overlap included, an order holds at most one line item per
\* variant.
C11_OneLineItemPerVariant ==
  \A o \in DOMAIN store, v \in Variants : Cardinality(LineItemsIn(o, v)) <= 1

\* The save requests in flight for an order in `states`, as the store holds it.
SavesOf(states) ==
  {p \in pending : p.kind = "save" /\ p.event = "" /\ store[p.order].state \in states}

\* C12: for every order in state payment, the payload has the top-level key
\* payment_source and the key order.payments_attributes exactly when a first
\* payment exists and its source is dirty; then payment_source has one entry,
\* keyed by the first payment's payment-method id, and payments_attributes is a
\* list of one element holding only that id; otherwise neither key is there.
C12_PaymentKeys ==
  \A p \in SavesOf({"payment"}) :
    LET payments == store[p.order].payments
        dirty == payments # <<>> /\ payments[1].source # "none" /\ payments[1].sourceIsDirty
    IN  /\ ("payment_source" \in DOMAIN p.data) = dirty
        /\ ("payments_attributes" \in DOMAIN p.data.order) = dirty
        /\ dirty =>
             /\ DOMAIN p.data["payment_source"] = {payments[1].paymentMethodId}
             /\ Len(p.data.order["payments_attributes"]) = 1
             /\ DOMAIN p.data.order["payments_attributes"][1] = {"payment_method_id"}
             /\ p.data.order["payments_attributes"][1]["payment_method_id"]
                  = payments[1].paymentMethodId

\* An order in payment was saved whose first payment, of method pm1, has a dirty
\* source and is followed by a payment of method pm2.
C12_Witness ==
  \E p \in SavesOf({"payment"}) :
    /\ Len(store[p.order].payments) > 1
    /\ store[p.order].payments[1].sourceIsDirty
    /\ store[p.order].payments[1].paymentMethodId = "pm1"
    /\ "payment_source" \in DOMAIN p.data
    /\ DOMAIN p.data["payment_source"] = {"pm1"}

\* C13: for an order in delivery without shipments (an empty collection), in
\* confirm, in complete or in cart, the payload is the base payload only: the
\* order's attributes under order and the top-level state, with no
\* bill_address_attributes, ship_address_attributes, shipments_attributes,
\* payments_attributes or payment_source key.
C13_BasePayloadOnly ==
  \A p \in SavesOf({"delivery", "confirm", "complete", "cart"}) :
    (store[p.order].state = "delivery" => store[p.order].shipments.items = <<>>) =>
      /\ DOMAIN p.data = {"order", "state"}
      /\ p.data.state = store[p.order].state
      /\ DOMAIN p.data.order = DOMAIN SuperSerialize(store[p.order])

\* C14: whenever no operation is in flight and there is a current order, the
\* machine's current state is the state the server has confirmed for that
\* order: right after the machine is attached, and after every sequence of
\* saveCurrentOrder, advanceCurrentOrder, addToCart and transitionCheckoutState
\* calls, successful or failed.
C14_MachineMirrorsOrder ==
  (pending = {} /\ currentOrder # Null) =>
    /\ current = store[currentOrder].state
    /\ Exists(currentOrder) => current = server[currentOrder].state

\* The step is the completion callback of a request of one of `kinds`.
Completes(kinds) == \E p \in pending : p.kind \in kinds /\ Settles(p)

C16_CreateRace ==
  /\ []((CanCall /\ currentOrder = Null) =>
          ENABLED (\E v \in Variants, q \in Quantities : addToCart(v, q)))
  /\ [][(IsCall("addToCart") /\ currentOrder = Null) =>
          /\ requests'.create = requests.create + 1
          /\ \E p \in pending' \ pending : p.kind = "create" /\ p.id = ops']_vars
  /\ [][(Completes({"create"}) /\ last'.response = "ok") =>
          /\ Len(server') = Len(server) + 1
          /\ currentOrder' = Len(server')
          /\ orderId' = currentOrder'
          /\ guestToken' = server'[currentOrder'].token
          /\ localStorage' = [orderId |-> orderId', guestToken |-> guestToken']]_vars

\* Two addToCart calls of a fresh session have each created an order; the
\* create of the first call completed last, and its order is the current and
\* the persisted one.
C16_Witness ==
  /\ requests.fetch = 0 /\ ops = 2 /\ requests.create = 2
  /\ Len(server) = 2 /\ events.didCreateNewOrder = 2
  /\ currentOrder = 2 /\ orderId = 2 /\ guestToken = Token(2)
  /\ localStorage = [orderId |-> 2, guestToken |-> Token(2)]
  /\ \E p \in pending : p.kind = "lineItem" /\ p.id = 1 /\ p.order = 2
  /\ \E p \in pending : p.kind = "lineItem" /\ p.id = 2 /\ p.order = 1

\* C17: when the create-order request of an addToCart made without a current
\* order fails, serverError is triggered, the promise of addToCart resolves to
\* the error (it neither rejects nor throws), no line-item save is attempted,
\* didAddToCart is not triggered, and the current order and the persisted
\* identifiers stay as they were (none).
C17_FailedCreateResolvesToError ==
  [][\A p \in pending :
       (p.kind = "create" /\ Settles(p) /\ last'.response # "ok") =>
         /\ events' = [events EXCEPT !.serverError = @ + 1]
         /\ last'.n = p.id /\ last'.op = "addToCart"
         /\ last'.outcome = "resolved" /\ last'.value = "error"
         /\ requests' = requests
         /\ pending' = pending \ {p}
         /\ UNCHANGED <<currentOrder, orderId, guestToken, localStorage, store, server>>]_vars

\* C18: in every state of the initialised service with no operation in flight
\* the persisted identifiers agree with the current order: when there is a current order the persisted
\* orderId is its id, and when there is none the persisted orderId and
\* guestToken are none; for every interleaving of the startup fetch with
\* addToCart and clearCurrentOrder, those issued while the startup fetch or a
\* create-order request is in flight included.
C18_PersistedAgreesWithOrder ==
  (phase # "init" /\ pending = {}) =>
    /\ currentOrder # Null =>
         orderId = currentOrder /\ localStorage.orderId = currentOrder
    /\ currentOrder = Null => NothingPersisted

\* The local quantity of the line item of `variant` in the loaded order `o`
\* (zero: the order has no such line item).
LocalQuantity(st, o, variant) ==
  IF findBy(st[o].lineItems, variant) = 0 THEN 0
  ELSE st[o].lineItems[findBy(st[o].lineItems, variant)].quantity

\* C19: when the line-item save of an addToCart for a variant that already has
\* a line item fails, the cart is as it was before the call: the line item's
\* local quantity is not incremented, serverError is triggered, didAddToCart is
\* not, and the promise resolves to the error; didAddToCart is triggered
\* exactly once per addToCart, and only when its line-item save succeeds.
C19_FailedAddLeavesCart ==
  /\ [][\A p \in pending :
          (p.kind = "lineItem" /\ Settles(p) /\ last'.response # "ok") =>
            /\ events' = [events EXCEPT !.serverError = @ + 1]
            /\ last'.n = p.id /\ last'.outcome = "resolved" /\ last'.value = "error"
            /\ server' = server
            /\ ~p.isNew =>
                 LocalQuantity(store', p.order, p.variant) = p.quantity - p.addQty]_vars
  /\ [][events'.didAddToCart # events.didAddToCart =>
          /\ events'.didAddToCart = events.didAddToCart + 1
          /\ \E p \in pending :
               p.kind = "lineItem" /\ Settles(p) /\ last'.n = p.id /\ last'.response = "ok"]_vars
  /\ [][\A p \in pending :
          (p.kind = "lineItem" /\ Settles(p) /\ last'.response = "ok") =>
            events'.didAddToCart = events.didAddToCart + 1]_vars
====
